---- MODULE Spec2Model ----
(***************************************************************************)
(* Model of bearViz.py: the palette derivation extract_colors (quantize,   *)
(* hex conversion, padding loop, truncation) and the part of the Streamlit *)
(* script that calls it and threads color_palette through session state    *)
(* into the chart-generation prompt.                                       *)
(*                                                                         *)
(* A hex colour string is a sequence of one-character strings, so that     *)
(* formatting ("{:02x}") and parsing (int(s, 16)) are computed digit by    *)
(* digit.  The quantizer (ColorThief) is an external collaborator: it      *)
(* either fails to decode the image or returns a non-empty ordered list of *)
(* RGB triples whose length is not tied to the requested colour count.     *)
(***************************************************************************)
EXTENDS Integers, Sequences, FiniteSets, TLC

\* ---- bounds of the model ----
MaxK == 4      \* largest small required_colors tried on the function alone
NegK == 1      \* required_colors ranges down to -NegK
MaxPad == 2    \* the quantizer falls short of color_count by at most MaxPad

\* ---- program constants ----
MaxColorCount == 10    \* min(required_colors, 10)
RandLo == 20           \* random.randint(20, 50)
RandHi == 50
AppRequiredColors == 8 \* required_colors = 8
Modulus == 256         \* % 256

Max(a, b) == IF a >= b THEN a ELSE b
Min(a, b) == IF a <= b THEN a ELSE b

\* ---- hex formatting and parsing ----
HexDigits == <<"0","1","2","3","4","5","6","7","8","9","a","b","c","d","e","f">>

LowerHexChars == {HexDigits[i] : i \in 1..16}

RECURSIVE ToHex(_)
\* format(n, "x") for n >= 0: lowercase hex digits, no padding
ToHex(n) == IF n < 16 THEN <<HexDigits[n + 1]>>
            ELSE ToHex(n \div 16) \o <<HexDigits[(n % 16) + 1]>>

\* "{:02x}".format(n): zero-padded to width 2, wider when n > 255
Fmt02x(n) == IF n < 16 THEN <<"0">> \o ToHex(n) ELSE ToHex(n)

\* "#{:02x}{:02x}{:02x}".format(*color)
FormatHex(color) == <<"#">> \o Fmt02x(color[1]) \o Fmt02x(color[2]) \o Fmt02x(color[3])

DigitValue(c) == CHOOSE v \in 0..15 : HexDigits[v + 1] = c

RECURSIVE ParseHex(_)
\* int(s, 16) for a non-empty string of lowercase hex digits
ParseHex(s) == IF Len(s) = 1 THEN DigitValue(s[1])
               ELSE 16 * ParseHex(SubSeq(s, 1, Len(s) - 1)) + DigitValue(s[Len(s)])

\* Python slice s[a:b] with 0 <= a <= b (0-based, end exclusive)
PySlice(s, a, b) == SubSeq(s, a + 1, Min(b, Len(s)))

\* int(base_color[1:3], 16), [3:5], [5:7] for c = 1, 2, 3
Channel(hex, c) == ParseHex(PySlice(hex, 2 * c - 1, 2 * c + 1))

\* ---- the inputs ----
Offsets == {RandLo, RandHi}   \* sampled draws of random.randint(RandLo, RandHi)

Images == {"photo", "logo", "corrupt"}

AppImages == {"photo", "corrupt"}

Decodable(img) == img # "corrupt"

\* the dominant colours of each decodable image, most prominent first
ImageColours(img) ==
    IF img = "photo"
    THEN << <<17, 34, 51>>, <<240, 250, 255>>, <<0, 128, 236>>, <<205, 206, 9>>,
            <<52, 152, 219>>, <<255, 255, 255>>, <<1, 2, 3>>, <<100, 110, 120>>,
            <<222, 173, 190>> >>
    ELSE << <<255, 0, 16>>, <<17, 34, 51>>, <<17, 34, 51>>, <<236, 235, 15>>,
            <<9, 10, 11>>, <<128, 128, 128>>, <<200, 100, 50>>, <<64, 32, 16>>,
            <<254, 1, 127>> >>

\* color_thief.get_palette(color_count): the possible results for an image
QuantizerOutputs(img, cc) ==
    { SubSeq(ImageColours(img), 1, m) :
        m \in { n \in 1..Len(ImageColours(img)) : n >= cc - MaxPad } }

RequiredCounts == ((0 - NegK)..MaxK) \cup {MaxColorCount + 1}

\* ---- the default palette and session state ----
DefaultPalette ==
    << <<"#","3","4","9","8","d","b">>, <<"#","e","7","4","c","3","c">>,
       <<"#","2","e","c","c","7","1">>, <<"#","f","1","c","4","0","f">>,
       <<"#","9","b","5","9","b","6">> >>

EmptySession == [key \in {} |-> <<>>]

\* mutant: the stored value is ignored
SessionGet_Default(d, key, default) == default

\* st.session_state.get(key, default)
SessionGet(d, key, default) == IF key \in DOMAIN d THEN d[key] ELSE default

\* st.session_state[key] = value
SessionSet(d, key, value) ==
    [x \in (DOMAIN d) \cup {key} |-> IF x = key THEN value ELSE d[x]]

VARIABLES
    session_state,     \* st.session_state, surviving across reruns
    uploaded_image,    \* the image widget's value in this rerun ("none" if empty)
    color_palette,     \* the script's color_palette
    query,             \* <<palette>> once the prompt has been built in this rerun
    apc,               \* position of the script run
    image,             \* extract_colors: argument image
    required_colors,   \* extract_colors: argument required_colors
    extracted_colors,  \* extract_colors: the quantizer's RGB triples
    extracted_hex,     \* extract_colors: the palette being built
    bases,             \* extract_colors: index used for base_color, per iteration
    result,            \* extract_colors: the returned list
    error,             \* the exception in flight, "none" if none
    quantize_calls,    \* number of get_palette calls made by the current call
    fpc                \* position inside extract_colors

appvars == <<session_state, uploaded_image, color_palette, query, apc>>
fnvars == <<image, required_colors, extracted_colors, extracted_hex, bases,
            result, error, quantize_calls, fpc>>
vars == <<session_state, uploaded_image, color_palette, query, apc,
          image, required_colors, extracted_colors, extracted_hex, bases,
          result, error, quantize_calls, fpc>>

\* ---- extract_colors ----

\* entering extract_colors(img, k)
Enter(img, k) ==
    /\ image' = img
    /\ required_colors' = k
    /\ extracted_colors' = <<>>
    /\ extracted_hex' = <<>>
    /\ bases' = <<>>
    /\ result' = <<>>
    /\ error' = "none"
    /\ quantize_calls' = 0
    /\ fpc' = "quantize"

\* lines 33-35, the image decodes
QuantizeOk ==
    /\ fpc = "quantize"
    /\ Decodable(image)
    /\ \E out \in QuantizerOutputs(image, Min(required_colors, MaxColorCount)) :
          /\ extracted_colors' = out
          /\ extracted_hex' = [i \in 1..Len(out) |-> FormatHex(out[i])]
    /\ quantize_calls' = quantize_calls + 1
    /\ fpc' = "loop"
    /\ UNCHANGED <<image, required_colors, bases, result, error>>
    /\ UNCHANGED appvars

\* lines 33-34, the image does not decode: the exception leaves extract_colors
QuantizeFails ==
    /\ fpc = "quantize"
    /\ ~Decodable(image)
    /\ quantize_calls' = quantize_calls + 1
    /\ error' = "DecodeError"
    /\ fpc' = "raised"
    /\ UNCHANGED <<image, required_colors, extracted_colors, extracted_hex,
                   bases, result>>
    /\ UNCHANGED appvars

\* line 39: the index of base_color
BaseIndex(hex) == Len(hex) % Len(hex)

\* mutant: the sum is not reduced
Perturb_NoWrap(v, d) == v + d

\* mutant: the sum is clamped at 255
Perturb_Clamp(v, d) == Min(255, v + d)

\* lines 41-43: one channel of new_color
Perturb(v, d) == (v + d) % Modulus

\* lines 40-44
NewColor(base_color, d1, d2, d3) ==
    FormatHex(<<Perturb(Channel(base_color, 1), d1),
                Perturb(Channel(base_color, 2), d2),
                Perturb(Channel(base_color, 3), d3)>>)

\* mutant: the new colour is put in front
Extend_Prepend(hex, new_color) == <<new_color>> \o hex

\* mutant: the new colour overwrites the last entry
Extend_Overwrite(hex, new_color) == [hex EXCEPT ![Len(hex)] = new_color]

\* line 45
Extend(hex, new_color) == Append(hex, new_color)

\* lines 38-45, one iteration of the while loop
PadLoop ==
    /\ fpc = "loop"
    /\ Len(extracted_hex) < required_colors
    /\ \E d1 \in Offsets, d2 \in Offsets, d3 \in Offsets :
          LET idx == BaseIndex(extracted_hex)
              base_color == extracted_hex[idx + 1]
          IN /\ extracted_hex' = Extend(extracted_hex, NewColor(base_color, d1, d2, d3))
             /\ bases' = Append(bases, idx)
    /\ UNCHANGED <<image, required_colors, extracted_colors, result, error,
                   quantize_calls, fpc>>
    /\ UNCHANGED appvars

\* mutant: the final slice is dropped
Truncate_Missing(hex, k) == hex

\* extracted_hex[:k], k of either sign
Truncate(hex, k) == IF k >= 0 THEN PySlice(hex, 0, k)
                    ELSE PySlice(hex, 0, Max(0, Len(hex) + k))

\* lines 38 and 47: the loop condition is false, return
Return ==
    /\ fpc = "loop"
    /\ ~(Len(extracted_hex) < required_colors)
    /\ result' = Truncate(extracted_hex, required_colors)
    /\ fpc' = "returned"
    /\ UNCHANGED <<image, required_colors, extracted_colors, extracted_hex,
                   bases, error, quantize_calls>>
    /\ UNCHANGED appvars

\* ---- the script ----

\* a rerun starts: the widgets are read (line 29) and line 50 runs
Rerun ==
    /\ apc \in {"idle", "end", "aborted"}
    /\ \E img \in AppImages \cup {"none"} : uploaded_image' = img
    /\ color_palette' = SessionGet(session_state, "color_palette", DefaultPalette)
    /\ query' = <<>>
    /\ apc' = "line52"
    /\ image' = "none"
    /\ required_colors' = 0
    /\ extracted_colors' = <<>>
    /\ extracted_hex' = <<>>
    /\ bases' = <<>>
    /\ result' = <<>>
    /\ error' = "none"
    /\ quantize_calls' = 0
    /\ fpc' = "idle"
    /\ UNCHANGED session_state

\* lines 52-54: an image was uploaded, extract_colors is called
CallExtract ==
    /\ apc = "line52"
    /\ uploaded_image # "none"
    /\ Enter(uploaded_image, AppRequiredColors)
    /\ apc' = "extract"
    /\ UNCHANGED <<session_state, uploaded_image, color_palette, query>>

\* line 52: no image
SkipExtract ==
    /\ apc = "line52"
    /\ uploaded_image = "none"
    /\ apc' = "load"
    /\ UNCHANGED <<session_state, uploaded_image, color_palette, query>>
    /\ UNCHANGED fnvars

\* lines 54-62: extract_colors returned
StoreResult ==
    /\ apc = "extract"
    /\ fpc = "returned"
    /\ color_palette' = result
    /\ session_state' = SessionSet(session_state, "color_palette", result)
    /\ apc' = "load"
    /\ UNCHANGED <<uploaded_image, query>>
    /\ UNCHANGED fnvars

\* mutant: the failure is answered by storing the default palette
Propagate_StoresDefault ==
    /\ apc = "extract"
    /\ fpc = "raised"
    /\ apc' = "aborted"
    /\ color_palette' = DefaultPalette
    /\ session_state' = SessionSet(session_state, "color_palette", DefaultPalette)
    /\ UNCHANGED <<uploaded_image, query>>
    /\ UNCHANGED fnvars

\* line 54: extract_colors raised; no handler encloses the call, the run ends
Propagate ==
    /\ apc = "extract"
    /\ fpc = "raised"
    /\ apc' = "aborted"
    /\ UNCHANGED <<session_state, uploaded_image, color_palette, query>>
    /\ UNCHANGED fnvars

\* lines 64-100: the data is loaded, or there is none
LoadData ==
    /\ apc = "load"
    /\ \E has_data \in BOOLEAN : apc' = IF has_data THEN "analyse" ELSE "end"
    /\ UNCHANGED <<session_state, uploaded_image, color_palette, query>>
    /\ UNCHANGED fnvars

\* lines 107-128: the button was pressed and the prompt is built, or not
Generate ==
    /\ apc = "analyse"
    /\ \E pressed \in BOOLEAN : query' = IF pressed THEN <<color_palette>> ELSE <<>>
    /\ apc' = "end"
    /\ UNCHANGED <<session_state, uploaded_image, color_palette>>
    /\ UNCHANGED fnvars

\* ---- specifications ----

\* the script, rerun after rerun in one session
Init ==
    /\ session_state = EmptySession
    /\ uploaded_image = "none"
    /\ color_palette = DefaultPalette
    /\ query = <<>>
    /\ apc = "idle"
    /\ image = "none"
    /\ required_colors = 0
    /\ extracted_colors = <<>>
    /\ extracted_hex = <<>>
    /\ bases = <<>>
    /\ result = <<>>
    /\ error = "none"
    /\ quantize_calls = 0
    /\ fpc = "idle"

Next ==
    \/ Rerun
    \/ CallExtract
    \/ SkipExtract
    \/ QuantizeOk
    \/ QuantizeFails
    \/ PadLoop
    \/ Return
    \/ StoreResult
    \/ Propagate
    \/ LoadData
    \/ Generate

Spec == Init /\ [][Next]_vars

\* extract_colors alone, called once with any image and any required_colors
InitFn ==
    /\ session_state = EmptySession
    /\ uploaded_image = "none"
    /\ color_palette = DefaultPalette
    /\ query = <<>>
    /\ apc = "idle"
    /\ image \in Images
    /\ required_colors \in RequiredCounts
    /\ extracted_colors = <<>>
    /\ extracted_hex = <<>>
    /\ bases = <<>>
    /\ result = <<>>
    /\ error = "none"
    /\ quantize_calls = 0
    /\ fpc = "quantize"

NextFn ==
    \/ QuantizeOk
    \/ QuantizeFails
    \/ PadLoop
    \/ Return

SpecFn == InitFn /\ [][NextFn]_vars

\* ---- properties ----

NumExtracted == Len(extracted_colors)

Padded == fpc \in {"loop", "returned"} /\ bases # <<>>

IsHexColor(e) ==
    /\ Len(e) = 7
    /\ e[1] = "#"
    /\ \A i \in 2..7 : e[i] \in LowerHexChars

\* C1: for required_colors k >= 1 and a quantizer output of m >= 1 colours,
\* the returned palette has exactly k entries, whether m < k, m = k or m > k.
C1_ExactCount ==
    (fpc = "returned" /\ required_colors >= 1 /\ NumExtracted >= 1)
        => Len(result) = required_colors

C1_Witness ==
    /\ fpc = "returned"
    /\ required_colors >= 1
    /\ NumExtracted > required_colors
    /\ Len(result) = required_colors

\* C2: the first min(k, m) entries of the palette, during the padding loop and
\* on return, are the quantizer's first min(k, m) colours in its order, and the
\* synthesized entries all sit after the m extracted ones.
C2_ExtractedPrefix ==
    (fpc \in {"loop", "returned"} /\ required_colors >= 1 /\ NumExtracted >= 1)
        => LET pal == IF fpc = "returned" THEN result ELSE extracted_hex
               n == IF fpc = "returned" THEN Min(required_colors, NumExtracted)
                    ELSE NumExtracted
           IN /\ Len(pal) >= n
              /\ \A i \in 1..n : \A c \in 1..3 :
                    Channel(pal[i], c) = extracted_colors[i][c]
              /\ Len(extracted_hex) = NumExtracted + Len(bases)

C2_Witness ==
    /\ fpc = "returned"
    /\ NumExtracted >= 2
    /\ NumExtracted < required_colors
    /\ Len(result) = required_colors

\* C3: every palette entry, extracted or synthesized, at every point of the
\* padding loop and in the result, is '#' followed by six lowercase hex digits,
\* each channel an integer in 0..255.
C3_HexFormat ==
    /\ \A i \in 1..Len(extracted_hex) :
          /\ IsHexColor(extracted_hex[i])
          /\ \A c \in 1..3 : Channel(extracted_hex[i], c) \in 0..255
    /\ \A i \in 1..Len(result) : IsHexColor(result[i])

C3_Witness ==
    /\ Padded
    /\ required_colors >= 1
    /\ \E c \in 1..3 :
          Channel(extracted_hex[Len(extracted_hex)], c)
              < Channel(extracted_hex[bases[Len(bases)] + 1], c)

\* C4: a call with required_colors <= 0 (on a decodable image) ends in an
\* InvalidArgument error and returns no palette, empty or partial.
C4_NonPositiveRaises ==
    (required_colors <= 0 /\ Decodable(image) /\ fpc \in {"returned", "raised"})
        => (fpc = "raised" /\ error = "InvalidArgument")

\* C5: when the quantizer fails to decode the image, the error leaves
\* extract_colors after a single quantizer call, no palette is returned, and
\* session state and color_palette stay as they were before the call.
C5_DecodeFailureKeepsSession ==
    [][ /\ (apc' = "extract" \/ error' = "DecodeError")
            => (session_state' = session_state /\ color_palette' = color_palette)
        /\ error' = "DecodeError"
            => (/\ fpc' = "raised"
                /\ result' = <<>>
                /\ quantize_calls' = 1
                /\ apc' \in {"extract", "aborted"}) ]_vars

C5_Witness ==
    /\ error = "DecodeError"
    /\ apc = "aborted"
    /\ "color_palette" \in DOMAIN session_state
    /\ color_palette = session_state["color_palette"]

\* C6 as stated: in a rerun without an image the prompt's palette is the
\* hardcoded default, whatever reruns came before.
C6_NoImageUsesDefault ==
    (uploaded_image = "none" /\ query # <<>>) => query[1] = DefaultPalette

\* C6 amended: in a rerun without an image the prompt's palette is the one
\* stored in session state by the last successful extraction, and the
\* hardcoded default only while session state holds none.
C6_NoImageUsesSessionPalette ==
    (uploaded_image = "none" /\ query # <<>>)
        => query[1] = IF "color_palette" \in DOMAIN session_state
                      THEN session_state["color_palette"]
                      ELSE DefaultPalette

C6_Witness ==
    /\ uploaded_image = "none"
    /\ query # <<>>
    /\ "color_palette" \in DOMAIN session_state
    /\ query[1] = session_state["color_palette"]
    /\ query[1] # DefaultPalette

\* C7: a rerun whose extract_colors call failed with a decode error is not
\* aborted: the error is caught and the rerun goes on to load the data.
C7_FailureDoesNotAbortRerun ==
    error = "DecodeError" => apc # "aborted"

\* C8: when m >= 2 colours were extracted and k >= m + 2 are required, the
\* padding loop takes its base colour from more than one palette index.
C8_BaseCycles ==
    (fpc = "returned" /\ NumExtracted >= 2 /\ required_colors >= NumExtracted + 2)
        => Cardinality({bases[j] : j \in 1..Len(bases)}) > 1

\* C9: each synthesized entry comes from an entry already in the palette when
\* it was made, each channel being that entry's channel plus an offset in
\* RandLo..RandHi, reduced modulo 256.
C9_PerturbedFromEarlier ==
    (fpc \in {"loop", "returned"} /\ NumExtracted >= 1)
        => \A j \in 1..Len(bases) :
              LET entry == extracted_hex[NumExtracted + j]
                  b == bases[j]
              IN /\ b >= 0
                 /\ b + 1 < NumExtracted + j
                 /\ \A c \in 1..3 : \E d \in RandLo..RandHi :
                       Channel(entry, c) = (Channel(extracted_hex[b + 1], c) + d) % 256

C9_Witness ==
    /\ fpc = "returned"
    /\ extracted_colors = << <<17, 34, 51>> >>
    /\ required_colors = 3
    /\ Len(result) = 3
    /\ Channel(result[2], 1) # Channel(result[3], 1)
    /\ Channel(result[2], 1) - 17 # Channel(result[2], 2) - 34

\* C10: the padding loop runs exactly max(0, k - m) times; each iteration
\* appends one entry and leaves the earlier ones as they were, so the number of
\* entries still missing drops by one per iteration.
C10_LoopBound ==
    [][ /\ (fpc = "loop" /\ fpc' = "loop" /\ required_colors >= 1)
            => (/\ Len(extracted_hex) < required_colors
                /\ Len(extracted_hex') = Len(extracted_hex) + 1
                /\ SubSeq(extracted_hex', 1, Len(extracted_hex)) = extracted_hex
                /\ Len(bases') = Len(bases) + 1
                /\ Len(bases') <= Max(0, required_colors - NumExtracted))
        /\ (fpc' = "returned" /\ required_colors' >= 1 /\ Len(extracted_colors') >= 1)
            => Len(bases') = Max(0, required_colors' - Len(extracted_colors')) ]_vars

C10_Witness ==
    /\ fpc = "returned"
    /\ required_colors >= 1
    /\ Len(bases) >= 3
    /\ Len(bases) = required_colors - NumExtracted

====
